---- MODULE Spec2Model ----
(***************************************************************************)
(* The notebook increasing_run_efficency.ipynb as a script: a timing probe *)
(* (time_test_power_calc_itter), a batch dispatch                          *)
(* (mulitprocess_power_calcs) and the cell that inspects the python_error  *)
(* column of the table the dispatch returned.                              *)
(*                                                                         *)
(* The calculator classes are imported from komanawa.gw_detect_power; what *)
(* the notebook holds of them is the calls, the recorded output of the     *)
(* calls and the recorded traceback.  The parts of the library modelled    *)
(* below are the ones these records determine.                             *)
(***************************************************************************)
EXTENDS Integers, Sequences, FiniteSets

\* ---------------------------------------------------------------- bounds
MaxRuns == 3          \* runs of one batch dispatch (the notebook passes 6)
MaxTestNitter == 2    \* testnitter of the timing probe (the notebook passes 5)
MaxElapsed == 2       \* elapsed wall time of the probe, in clock ticks

\* ------------------------------------------------------ program constants
nsims == 1000         \* AutoDetectionPowerSlope(nsims=1000)
min_samples == 10     \* "nsamples must be greater than 10"

\* samp_years_vals=np.array([5, 5, 5, 10, 10, 10])
SampYears == {5, 10}
\* samp_per_year_vals=np.array([1, 4, 12, 1, 4, 12])
SampPerYear == {1, 4, 12}

\* values of the python_error column
None == "None"
NsamplesError == "ValueError: nsamples must be greater than min_samples"
OtherError == "Traceback: other exception"
Pending == "pending"

VARIABLES
    pc,                 \* the cell the notebook is at
    testnitter,         \* argument of the timing probe
    elapsed,            \* wall time the probe's testnitter iterations took
    time_per_iter,      \* printed "time per iteration", a rational [num, den]
    time_total,         \* printed "it will take ... s", a rational [num, den]
    nruns,              \* len(idv_vals)
    samp_years_vals,    \* per-run samp_years
    samp_per_year_vals, \* per-run samp_per_year
    outdata,            \* python_error column of the table, in idv order
    stdout              \* what the inspection cell printed

vars == <<pc, testnitter, elapsed, time_per_iter, time_total, nruns,
          samp_years_vals, samp_per_year_vals, outdata, stdout>>

\* ------------------------------------------------------------- rationals
Rat(n, d) == [num |-> n, den |-> d]
RatEq(a, b) == a.num * b.den = b.num * a.den
RatMulInt(a, k) == Rat(a.num * k, a.den)
RatDivInt(a, k) == Rat(a.num, a.den * k)
NoRat == Rat(0, 1)

\* idv_vals=np.array([f'run_{i}' for i in range(6)]): run i is keyed run_{i-1}
idv(i) == i - 1

Init ==
    /\ pc = "timing"
    /\ testnitter \in 1..MaxTestNitter
    /\ elapsed \in 1..MaxElapsed
    /\ time_per_iter = NoRat
    /\ time_total = NoRat
    /\ nruns \in 1..MaxRuns
    /\ samp_years_vals \in [1..nruns -> SampYears]
    /\ samp_per_year_vals \in [1..nruns -> SampPerYear]
    /\ outdata = [i \in 1..nruns |-> Pending]
    /\ stdout = <<>>

\* ------------------------------------------------------------ timing probe
\* "time per iteration: 0.8093305587768554 s. based on 5 iterations"
TimePerIter(t, n) == Rat(t, n)

\* "with set number of iterations: 1000 it will take 13.488842646280924 s":
\* 0.8093305587768554 * 1000 / 60 = 13.488842646280924, and
\* 0.18702340126037598 * 1000 / 60 = 3.117056687672933 in the second cell.
TimeTotal(per, n) == RatDivInt(RatMulInt(per, n), 60)

time_test_power_calc_itter ==
    /\ pc = "timing"
    /\ time_per_iter' = TimePerIter(elapsed, testnitter)
    /\ time_total' = TimeTotal(TimePerIter(elapsed, testnitter), nsims)
    /\ pc' = "batch"
    /\ UNCHANGED <<testnitter, elapsed, nruns, samp_years_vals,
                   samp_per_year_vals, outdata, stdout>>

\* ---------------------------------------------------------- batch dispatch
\* number of samples of run i
nsamples(i) == samp_years_vals[i] * samp_per_year_vals[i]

\* _run_power_calc: raise ValueError(f'nsamples must be greater than
\* {self.min_samples}, ...').  In the recorded batch run_0 (5 samples) is the
\* one run with an error ("1 errors"); run_3 (10 samples) and the runs with
\* 20, 40, 60 and 120 samples have none: the error is raised for fewer than
\* min_samples samples.
NsamplesRaises(n) == n < min_samples

\* _power_calc_mp: out = self.power_calc(**kwargs); an exception is kept as
\* its traceback in python_error, which is None when there is no error.
\* other: power_calc raised for a reason the notebook does not show.
PowerCalcMp(n, other) ==
    IF NsamplesRaises(n) THEN NsamplesError
    ELSE IF other THEN OtherError
    ELSE None

\* outdata = dpc.mulitprocess_power_calcs(...): prints "running 6 runs" and
\* hands the runs to the pool
mulitprocess_power_calcs ==
    /\ pc = "batch"
    /\ pc' = "running"
    /\ UNCHANGED <<testnitter, elapsed, time_per_iter, time_total, nruns,
                   samp_years_vals, samp_per_year_vals, outdata, stdout>>

\* one run in a ForkPoolWorker; the workers take the runs in any order
power_calc_mp ==
    /\ pc = "running"
    /\ \E i \in 1..nruns, other \in BOOLEAN :
          /\ outdata[i] = Pending
          /\ outdata' = [outdata EXCEPT ![i] = PowerCalcMp(nsamples(i), other)]
    /\ UNCHANGED <<pc, testnitter, elapsed, time_per_iter, time_total, nruns,
                   samp_years_vals, samp_per_year_vals, stdout>>

\* the pool has finished every run; the call returns the table
batch_return ==
    /\ pc = "running"
    /\ \A i \in 1..nruns : outdata[i] # Pending
    /\ pc' = "count"
    /\ UNCHANGED <<testnitter, elapsed, time_per_iter, time_total, nruns,
                   samp_years_vals, samp_per_year_vals, outdata, stdout>>

\* ------------------------------------------------------- result inspection
\* outdata['python_error'].isna() / .notna()
isna(col) == [i \in DOMAIN col |-> col[i] = None]
notna(col) == [i \in DOMAIN col |-> col[i] # None]

\* .sum() of a boolean column
RECURSIVE SumTo(_, _)
SumTo(mask, k) ==
    IF k = 0 THEN 0 ELSE SumTo(mask, k - 1) + (IF mask[k] THEN 1 ELSE 0)
sum(mask) == SumTo(mask, Len(mask))

\* ~mask
Invert(mask) == [i \in DOMAIN mask |-> ~mask[i]]

\* seq[mask]: boolean indexing keeps the entries whose mask is True, in order
RECURSIVE MaskTo(_, _, _)
MaskTo(seq, mask, k) ==
    IF k = 0 THEN <<>>
    ELSE IF mask[k] THEN Append(MaskTo(seq, mask, k - 1), seq[k])
    ELSE MaskTo(seq, mask, k - 1)
BoolIndex(seq, mask) == MaskTo(seq, mask, Len(seq))

\* zip(a, b) stops at the shorter argument
Min(a, b) == IF a < b THEN a ELSE b
zip(a, b) == [k \in 1..Min(Len(a), Len(b)) |-> <<a[k], b[k]>>]

\* outdata.index
index(col) == [i \in DOMAIN col |-> idv(i)]

\* print(outdata['python_error'].notna().sum(), 'errors')
CountLine(col) == <<"errors", sum(notna(col))>>

\* the loop with the mask left off the second argument of zip: the identifiers
\* of the failed rows against the whole python_error column
ErrorPairsUnmasked(col) ==
    zip(BoolIndex(index(col), Invert(isna(col))), col)

\* zip(outdata.index[~outdata['python_error'].isna()],
\*     outdata['python_error'][~outdata['python_error'].isna()])
ErrorPairs(col) ==
    zip(BoolIndex(index(col), Invert(isna(col))),
        BoolIndex(col, Invert(isna(col))))

\* print(..., 'errors'); print('Errors:\n')
print_count ==
    /\ pc = "count"
    /\ stdout' = <<CountLine(outdata), <<"Errors:">>>>
    /\ pc' = "loop"
    /\ UNCHANGED <<testnitter, elapsed, time_per_iter, time_total, nruns,
                   samp_years_vals, samp_per_year_vals, outdata>>

\* one iteration of the for loop: print(idv, error)
print_error ==
    /\ pc = "loop"
    /\ Len(stdout) - 2 < Len(ErrorPairs(outdata))
    /\ stdout' = Append(stdout, ErrorPairs(outdata)[Len(stdout) - 1])
    /\ UNCHANGED <<pc, testnitter, elapsed, time_per_iter, time_total, nruns,
                   samp_years_vals, samp_per_year_vals, outdata>>

\* the for loop is exhausted
loop_end ==
    /\ pc = "loop"
    /\ Len(stdout) - 2 = Len(ErrorPairs(outdata))
    /\ pc' = "done"
    /\ UNCHANGED <<testnitter, elapsed, time_per_iter, time_total, nruns,
                   samp_years_vals, samp_per_year_vals, outdata, stdout>>

Next ==
    \/ time_test_power_calc_itter
    \/ mulitprocess_power_calcs
    \/ power_calc_mp
    \/ batch_return
    \/ print_count
    \/ print_error
    \/ loop_end

Spec == Init /\ [][Next]_vars

\* ------------------------------------------------------------------ types
TypeOK ==
    /\ pc \in {"timing", "batch", "running", "count", "loop", "done"}
    /\ nruns \in 1..MaxRuns
    /\ outdata \in [1..nruns -> {Pending, None, NsamplesError, OtherError}]
    /\ pc \in {"count", "loop", "done"} =>
          \A i \in 1..nruns : outdata[i] # Pending

\* ----------------------------------------------------------------- claims
\* rows of the returned table whose python_error is non-null
ErrorRows == {i \in 1..nruns : outdata[i] # None}
\* the (identifier, traceback) lines: what follows the count and the header
PrintedLines == 3..Len(stdout)

\* C7: the timing probe reports elapsed / testnitter as the time per
\* iteration, and as the time the full power calculation takes, in seconds,
\* the time per iteration multiplied by nsims.
C7_TotalIsPerIterTimesNsims ==
    pc # "timing" =>
        /\ RatEq(time_per_iter, Rat(elapsed, testnitter))
        /\ RatEq(time_total, RatMulInt(time_per_iter, nsims))

\* C8: a run fails with the ValueError 'nsamples must be greater than
\* min_samples' exactly when its number of samples (samp_years *
\* samp_per_year) is not greater than min_samples.
C8_NsamplesMustExceedMin ==
    \A i \in 1..nruns :
        outdata[i] # Pending =>
            ((nsamples(i) <= min_samples) <=> (outdata[i] = NsamplesError))

\* C9: the inspection cell prints the number of rows whose python_error is
\* non-null, then exactly one (identifier, traceback) line for each such row
\* and none for any other row, each identifier with the traceback of its own
\* row, in table order.
C9_InspectionPrintsErrors ==
    pc = "done" =>
        /\ Len(stdout) >= 2
        /\ stdout[1] = <<"errors", Cardinality(ErrorRows)>>
        /\ stdout[2] = <<"Errors:">>
        /\ \A i \in ErrorRows :
              /\ Cardinality({k \in PrintedLines : stdout[k][1] = idv(i)}) = 1
              /\ \A k \in PrintedLines :
                    stdout[k][1] = idv(i) => stdout[k][2] = outdata[i]
        /\ \A i \in (1..nruns) \ ErrorRows :
              \A k \in PrintedLines : stdout[k][1] # idv(i)
        /\ \A k \in PrintedLines : \E i \in 1..nruns : stdout[k][1] = idv(i)
        /\ \A k1, k2 \in PrintedLines :
              k1 < k2 => stdout[k1][1] < stdout[k2][1]

\* C9 witness: the cell has finished on a table where a row without error
\* stands between two failed rows whose tracebacks differ.
C9_Witness ==
    /\ pc = "done"
    /\ nruns >= 3
    /\ outdata[1] = NsamplesError
    /\ outdata[2] = None
    /\ outdata[3] = OtherError
    /\ Len(stdout) = 4
====
